---- MODULE Spec2Model ----
(***************************************************************************)
(* CartButler backend: the relational state reached through Prisma         *)
(* (users, cart, cart_items, product_store), the GET /shopping-results     *)
(* handlers and the GET/POST /cart handlers, in each of the versions the   *)
(* repository holds.                                                       *)
(*                                                                         *)
(* Money is counted in cents and distances in 1/10000 km, so that the      *)
(* arithmetic of the handlers (price * quantity, toFixed(3), <=) is exact  *)
(* integer arithmetic.                                                     *)
(***************************************************************************)
EXTENDS Integers, Sequences, FiniteSets, TLC

VARIABLES
    users,          \* table users: set of user_id
    cart,           \* table cart: set of [id, user_id, quantity]
    cart_items,     \* table cart_items: set of [id, cart_id, product_id, quantity]
    product_store,  \* table product_store: sequence of rows, in primary-key order
    products,       \* table products: set of [product_id, product_name, category_id,
                    \* created_at, language_id]
    nextCartId,     \* autoincrement counter of cart.id
    nextItemId,     \* autoincrement counter of cart_items.id
    resp,           \* the last GET /shopping-results exchange
    proc,           \* per request slot: the /cart request it runs and where it stands
    tx,             \* per request slot: the open prisma.$transaction, if any
    started,        \* number of /cart requests started so far
    last            \* the last /cart request answered, with its answer

vars == <<users, cart, cart_items, product_store, products, nextCartId, nextItemId, resp,
          proc, tx, started, last>>

(***************************************************************************)
(* Bounds of the model.                                                    *)
(***************************************************************************)
MaxQty == 2
MaxOfferRows == 3
MaxRequests == 2
MaxProducts == 12

(***************************************************************************)
(* Generic helpers on sequences.                                           *)
(***************************************************************************)
Range(s) == {s[i] : i \in 1..Len(s)}

RECURSIVE SeqSum(_)
SeqSum(s) == IF s = <<>> THEN 0 ELSE Head(s) + SeqSum(Tail(s))

(***************************************************************************)
(* Query parameters. A parameter is absent, a string that does not parse   *)
(* as a number, or a string that does.                                     *)
(***************************************************************************)
Absent == [k |-> "absent", v |-> 0]
NotNum == [k |-> "nan", v |-> 0]
Num(n) == [k |-> "num", v |-> n]

\* JavaScript truthiness of a query-string parameter: undefined is falsy,
\* every non-empty string ("0" included) is truthy.
Truthy(p) == p.k # "absent"

(***************************************************************************)
(* The catalogue. Products and stores are written by catalogue management, *)
(* outside these handlers; product_store carries no unique constraint on   *)
(* (product_id, store_id), so a table may hold two rows for one pair.      *)
(***************************************************************************)
Products == {1, 2}          \* rows of table products (product_id)
Stores == {1, 2, 3}         \* rows of table stores (store_id)
UserIds == {"u1", "u2"}

\* The rows a product_store table of the model is drawn from, in
\* primary-key (product_store_id) order.
OfferRows ==
    << [product_store_id |-> 1, product_id |-> 1, store_id |-> 2, price |-> 250],
       [product_store_id |-> 2, product_id |-> 1, store_id |-> 1, price |-> 300],
       [product_store_id |-> 3, product_id |-> 2, store_id |-> 1, price |-> 500],
       [product_store_id |-> 4, product_id |-> 1, store_id |-> 1, price |-> 300],
       [product_store_id |-> 5, product_id |-> 2, store_id |-> 2, price |-> 0] >>

OfferTables ==
    { SelectSeq(OfferRows, LAMBDA r : r.product_store_id \in I) :
        I \in {J \in SUBSET (1..Len(OfferRows)) : Cardinality(J) <= MaxOfferRows} }

\* The table of the specification's two-line scenario: store 1 (X) offers
\* product 1 (A) at 3.00 and product 2 (B) at 5.00, store 2 (Y) offers A at 2.50.
ScenarioOffers == SelectSeq(OfferRows, LAMBDA r : r.product_store_id \in {1, 2, 3})

\* product names, letter by letter
Milk == <<"m", "i", "l", "k">>
OatMilk == <<"o", "a", "t", " ", "m", "i", "l", "k">>
Bread == <<"b", "r", "e", "a", "d">>

\* the products table with rows 1..n: the first c rows are of category 1,
\* the others of category 2; created_at (DateTime(0), in seconds) is not in
\* product_id order and repeats
Catalogue(n, c) ==
    {[product_id |-> i,
      product_name |-> IF i % 3 = 1 THEN Milk ELSE IF i % 3 = 2 THEN OatMilk ELSE Bread,
      category_id |-> IF i <= c THEN 1 ELSE 2,
      created_at |-> (i * 5) % 7,
      language_id |-> IF i = 4 THEN "fr-CA" ELSE "en-US"] : i \in 1..n}

\* the rows of the products of the catalogue above
ProductRows == Catalogue(Cardinality(Products), 1)

(***************************************************************************)
(* Great-circle distance from a user location to a store, in 1/10000 km.   *)
(* The haversine value is a function of the two coordinate pairs only; the *)
(* model tabulates it for three user locations.                            *)
(***************************************************************************)
Locations == {"L1", "L2", "L3"}

Haversine(loc, store_id) ==
    CASE loc = "L1" -> (CASE store_id = 1 -> 50000 [] store_id = 2 -> 50004 [] OTHER -> 10)
      [] loc = "L2" -> (CASE store_id = 1 -> 0 [] store_id = 2 -> 49996 [] OTHER -> 20)
      [] OTHER      -> (CASE store_id = 1 -> 50006 [] store_id = 2 -> 1200000 [] OTHER -> 30)

\* Number.prototype.toFixed(3): the value rounded to a multiple of 0.001.
ToFixed3(d) == ((d + 5) \div 10) * 10

\* The distance field of a store in a response.
DNull == [t |-> "null", v |-> 0]
DUndefined == [t |-> "undefined", v |-> 0]
DNum(n) == [t |-> "num", v |-> n]
DStr(n) == [t |-> "str", v |-> n]      \* the string "<n> km"

(***************************************************************************)
(* prisma.cart.findFirst({ include: { cart_items: { include: { products:   *)
(* { include: { product_store: ... }}}}}}): the lines of a cart and, per   *)
(* line, every product_store row of its product.                           *)
(***************************************************************************)
RECURSIVE ItemsById(_)
ItemsById(S) ==
    IF S = {} THEN <<>>
    ELSE LET m == CHOOSE x \in S : \A y \in S : x.id <= y.id
         IN <<m>> \o ItemsById(S \ {m})

\* cart.cart_items of the loaded cart
CartItemsOf(cart_id) == ItemsById({it \in cart_items : it.cart_id = cart_id})

\* cartItem.products.product_store
ProductStoreOf(product_id) == SelectSeq(product_store, LAMBDA r : r.product_id = product_id)

(***************************************************************************)
(* The store_products reduce: one bucket per store, in the order the       *)
(* buckets are created.                                                    *)
(***************************************************************************)
RECURSIVE OfferPairs(_)
\* the (cartItem, productStore) pairs in the order reduce/forEach visits them
OfferPairs(items) ==
    IF items = <<>> THEN <<>>
    ELSE LET offs == ProductStoreOf(Head(items).product_id)
         IN [i \in 1..Len(offs) |-> [cartItem |-> Head(items), productStore |-> offs[i]]]
            \o OfferPairs(Tail(items))

MutAccumulateOncePerStore(acc, pair) ==
    LET sid == pair.productStore.store_id
        line == [product_id |-> pair.cartItem.product_id,
                 price |-> pair.productStore.price,
                 quantity |-> pair.cartItem.quantity]
    IN IF \E i \in 1..Len(acc) : acc[i].store_id = sid
       THEN acc
       ELSE Append(acc, [store_id |-> sid, distance |-> DUndefined,
                         products |-> <<line>>,
                         total |-> pair.productStore.price * pair.cartItem.quantity])

\* the body of the forEach callback
Accumulate(acc, pair) ==
    LET sid == pair.productStore.store_id
        acc1 == IF \E i \in 1..Len(acc) : acc[i].store_id = sid
                THEN acc
                ELSE Append(acc, [store_id |-> sid, distance |-> DUndefined,
                                  products |-> <<>>, total |-> 0])
    IN [i \in 1..Len(acc1) |->
          IF acc1[i].store_id = sid
          THEN [acc1[i] EXCEPT
                  !.products = Append(@, [product_id |-> pair.cartItem.product_id,
                                          price |-> pair.productStore.price,
                                          quantity |-> pair.cartItem.quantity]),
                  !.total = @ + pair.productStore.price * pair.cartItem.quantity]
          ELSE acc1[i]]

RECURSIVE Reduce(_, _)
Reduce(acc, pairs) ==
    IF pairs = <<>> THEN acc ELSE Reduce(Accumulate(acc, Head(pairs)), Tail(pairs))

\* a bucket, without lines, also for store 3, which has no offer
MutZeroEntryPerStore(items) ==
    Reduce(<<>>, OfferPairs(items))
        \o <<[store_id |-> 3, distance |-> DUndefined, products |-> <<>>, total |-> 0]>>

\* store_products, as the list of its buckets in creation order
StoreProducts(items) == Reduce(<<>>, OfferPairs(items))

RECURSIVE ByStoreId(_)
ByStoreId(S) ==
    IF S = {} THEN <<>>
    ELSE LET m == CHOOSE x \in S : \A y \in S : x.store_id <= y.store_id
         IN <<m>> \o ByStoreId(S \ {m})

MutObjectValuesInsertionOrder(acc) == acc

\* Object.values(store_products): the keys are store ids, integer-like
\* property names, which JavaScript enumerates in ascending numeric order.
ObjectValues(acc) == ByStoreId(Range(acc))

\* one step of a stable sort under the comparator (a, b) => a.total - b.total
InsertByTotal(sorted, x) ==
    LET k == Cardinality({i \in 1..Len(sorted) : sorted[i].total <= x.total})
    IN SubSeq(sorted, 1, k) \o <<x>> \o SubSeq(sorted, k + 1, Len(sorted))

RECURSIVE StableSortFrom(_, _)
StableSortFrom(sorted, rest) ==
    IF rest = <<>> THEN sorted
    ELSE StableSortFrom(InsertByTotal(sorted, Head(rest)), Tail(rest))

MutSortDescending(stores) ==
    LET asc == StableSortFrom(<<>>, stores)
    IN [i \in 1..Len(asc) |-> asc[Len(asc) + 1 - i]]

\* stores.sort((a, b) => a.total - b.total); Array.prototype.sort is stable
SortByTotal(stores) == StableSortFrom(<<>>, stores)

(***************************************************************************)
(* calculateDistances: one raw SQL query over a UNION ALL of one SELECT    *)
(* per store. The query text is not valid SQL when the store list is empty *)
(* (FROM () AS input) or when a coordinate is NaN/undefined; the function  *)
(* then throws 'Failed to calculate distances'.                            *)
(***************************************************************************)
CalculateDistances(loc, stores) ==
    IF stores = <<>> \/ loc \notin Locations
    THEN [ok |-> FALSE, rows |-> <<>>]
    ELSE [ok |-> TRUE,
          rows |-> [i \in 1..Len(stores) |->
                      [store_id |-> stores[i].store_id,
                       distance |-> Haversine(loc, stores[i].store_id)]]]

\* `${distance.toFixed(3)} km`
FormatKm(d) == DStr(ToFixed3(d))
\* parseFloat(distance.toFixed(3))
RoundedNumber(d) == DNum(ToFixed3(d))

\* the value a handler stores in store.distance: the "km" string or the number
Written(fmt, d) == IF fmt = "km" THEN FormatKm(d) ELSE RoundedNumber(d)

\* distances.forEach(...): attach to each bucket the distance, as written
AttachDistances(acc, rows, fmt) ==
    [i \in 1..Len(acc) |->
        IF \E j \in 1..Len(rows) : rows[j].store_id = acc[i].store_id
        THEN LET j == CHOOSE j \in 1..Len(rows) : rows[j].store_id = acc[i].store_id
             IN [acc[i] EXCEPT !.distance = Written(fmt, rows[j].distance)]
        ELSE acc[i]]

\* a <= b on a distance field and a radius parameter, as JavaScript compares
\* parseFloat/Number of them: false as soon as one side is NaN or undefined
LessOrEqual(distance, radius) ==
    /\ distance.t \in {"num", "str"}
    /\ radius.k = "num"
    /\ distance.v <= radius.v

\* a request's query parameters; user_id and user_location are "" when absent
Request(cart_id, user_id, radius, user_location, store_ids) ==
    [cart_id |-> cart_id, user_id |-> user_id, radius |-> radius,
     user_location |-> user_location, store_ids |-> store_ids]

\* res.status(status).json(body), after dbAccess awaited data-store calls
Reply(status, body, dbAccess) == [status |-> status, body |-> body, dbAccess |-> dbAccess]

\* prisma.cart.findFirst({ where: { id, user_id } })
FindCart(cart_id, user_id) == {c \in cart : c.id = cart_id /\ c.user_id = user_id}

(***************************************************************************)
(* GET /shopping-results, src/index.js.                                    *)
(***************************************************************************)
\* the whereClause: the cart, provided some line's product has an offer
\* (in one of the stores of storeIdsArray, when that list is not empty)
FindCartWhere(cart_id, user_id, storeIdsArray) ==
    {c \in FindCart(cart_id, user_id) :
        \E it \in cart_items :
            /\ it.cart_id = c.id
            /\ \E i \in 1..Len(product_store) :
                  /\ product_store[i].product_id = it.product_id
                  /\ (storeIdsArray = <<>> \/ product_store[i].store_id \in Range(storeIdsArray))}

ShoppingResultsIndex(req) ==
    IF ~Truthy(req.cart_id) \/ req.user_id = "" THEN Reply(400, <<>>, 0)
    ELSE IF Truthy(req.radius) /\ req.user_location = "" THEN Reply(400, <<>>, 0)
    ELSE IF req.cart_id.k = "nan" THEN Reply(400, <<>>, 0)
    ELSE IF req.user_location # "" /\ req.user_location \notin Locations THEN Reply(400, <<>>, 0)
    ELSE LET found == FindCartWhere(req.cart_id.v, req.user_id, req.store_ids)
         IN IF found = {} THEN Reply(404, <<>>, 1)
            ELSE LET c == CHOOSE c \in found : TRUE
                     store_products == StoreProducts(CartItemsOf(c.id))
                     nulled == [i \in 1..Len(store_products) |->
                                  [store_products[i] EXCEPT !.distance = DNull]]
                     distances == CalculateDistances(req.user_location, ObjectValues(nulled))
                     stores_filtered_by_radius ==
                         IF Truthy(req.radius)
                         THEN SelectSeq(ObjectValues(AttachDistances(nulled, distances.rows, "km")),
                                        LAMBDA st : LessOrEqual(st.distance, req.radius))
                         ELSE ObjectValues(nulled)
                     non_empty_stores == SelectSeq(stores_filtered_by_radius,
                                                   LAMBDA st : Len(st.products) > 0)
                     sorted_stores == SortByTotal(non_empty_stores)
                 IN IF Truthy(req.radius) /\ ~distances.ok THEN Reply(500, <<>>, 2)
                    ELSE Reply(200, sorted_stores, IF Truthy(req.radius) THEN 2 ELSE 1)

(***************************************************************************)
(* GET /shopping-results, src/endpoints/shopping_results.js.               *)
(***************************************************************************)
ShoppingResultsEndpoint(req) ==
    IF ~Truthy(req.cart_id) \/ req.user_id = "" THEN Reply(400, <<>>, 0)
    ELSE IF req.cart_id.k = "nan" THEN Reply(400, <<>>, 0)
    \* user_location.split(',') on undefined throws a TypeError: the catch answers 500
    ELSE IF req.user_location = "" THEN Reply(500, <<>>, 0)
    ELSE LET found == FindCart(req.cart_id.v, req.user_id)
         IN IF found = {} THEN Reply(404, <<>>, 1)
            ELSE LET c == CHOOSE c \in found : TRUE
                     store_products == StoreProducts(CartItemsOf(c.id))
                     distances == CalculateDistances(req.user_location, ObjectValues(store_products))
                     filteredStores ==
                         SelectSeq(ObjectValues(AttachDistances(store_products, distances.rows, "number")),
                                   LAMBDA st : LessOrEqual(st.distance, req.radius))
                 IN IF ~distances.ok THEN Reply(500, <<>>, 2)
                    ELSE Reply(200, filteredStores, 2)

(***************************************************************************)
(* GET /shopping-results, src/unnamed/part_004.                            *)
(***************************************************************************)
\* distance: store.distance || null   (0 and undefined are falsy)
OrNull(distance) ==
    IF distance.t = "undefined" \/ (distance.t = "num" /\ distance.v = 0) THEN DNull ELSE distance

ShoppingResultsPart004(req) ==
    IF ~Truthy(req.cart_id) \/ req.user_id = "" THEN Reply(400, <<>>, 0)
    ELSE IF req.cart_id.k = "nan" THEN Reply(400, <<>>, 0)
    ELSE IF req.user_location # "" /\ req.user_location \notin Locations THEN Reply(400, <<>>, 0)
    ELSE LET found == FindCart(req.cart_id.v, req.user_id)
         IN IF found = {} THEN Reply(404, <<>>, 1)
            ELSE LET c == CHOOSE c \in found : TRUE
                     store_products == StoreProducts(CartItemsOf(c.id))
                     distances == CalculateDistances(req.user_location, ObjectValues(store_products))
                     withDistance == AttachDistances(store_products, distances.rows, "number")
                     \* if (store.distance > parsed_radius) delete store_products[store.store_id]
                     kept == SelectSeq(withDistance,
                                       LAMBDA st : ~(st.distance.t = "num" /\ st.distance.v > req.radius.v))
                     result(stores) == [i \in 1..Len(stores) |->
                                          [stores[i] EXCEPT !.distance = OrNull(@)]]
                 IN IF req.user_location = "" THEN Reply(200, result(ObjectValues(store_products)), 1)
                    ELSE IF ~distances.ok THEN Reply(500, <<>>, 2)
                    ELSE IF ~Truthy(req.radius) THEN Reply(200, result(ObjectValues(withDistance)), 2)
                    ELSE IF req.radius.k = "nan" THEN Reply(400, <<>>, 2)
                    ELSE Reply(200, result(ObjectValues(kept)), 2)

(***************************************************************************)
(* GET /shopping-results, src/unnamed/part_009 and src/unnamed/part_008:   *)
(* the versions that keep only the stores carrying every cart product.     *)
(***************************************************************************)
DefaultRadiusKm == 100

MutKeepIncompleteStores(stores, items) == stores

\* filtered_stores: cart_product_ids.every(id => store_product_ids.includes(id))
CompleteStores(stores, items) ==
    SelectSeq(stores,
              LAMBDA st : \A i \in 1..Len(items) :
                             \E j \in 1..Len(st.products) :
                                st.products[j].product_id = items[i].product_id)

MutIgnoreStoreId(stores, store_ids) == stores

\* stores_filtered_by_id: store.store_id === parseInt(store_id, 10); parseInt
\* reads the leading integer of the parameter
StoresFilteredById(stores, store_ids) ==
    IF store_ids = <<>> THEN stores
    ELSE SelectSeq(stores, LAMBDA st : st.store_id = Head(store_ids))

ShoppingResultsPart009(req) ==
    IF ~Truthy(req.cart_id) \/ req.user_id = "" \/ req.user_location = "" THEN Reply(400, <<>>, 0)
    ELSE IF req.cart_id.k = "nan" THEN Reply(400, <<>>, 0)
    ELSE LET found == FindCart(req.cart_id.v, req.user_id)
         IN IF found = {} THEN Reply(404, <<>>, 1)
            ELSE LET c == CHOOSE c \in found : TRUE
                     items == CartItemsOf(c.id)
                     store_products == StoreProducts(items)
                     filtered_stores == CompleteStores(ObjectValues(store_products), items)
                     stores_filtered_by_id == StoresFilteredById(filtered_stores, req.store_ids)
                     radius == IF Truthy(req.radius) THEN req.radius
                               ELSE Num(DefaultRadiusKm * 10000)
                     \* calculateDistance: the haversine value, NaN for a malformed location
                     stores_filtered_by_radius ==
                         SelectSeq(stores_filtered_by_id,
                                   LAMBDA st : /\ req.user_location \in Locations
                                               /\ LessOrEqual(DNum(Haversine(req.user_location, st.store_id)),
                                                              radius))
                     non_empty_stores == SelectSeq(stores_filtered_by_radius,
                                                   LAMBDA st : Len(st.products) > 0)
                 IN Reply(200, SortByTotal(non_empty_stores), 1)

ShoppingResultsPart008(req) ==
    IF ~Truthy(req.cart_id) \/ req.user_id = "" THEN Reply(400, <<>>, 0)
    ELSE IF req.cart_id.k = "nan" THEN Reply(400, <<>>, 0)
    ELSE LET found == FindCart(req.cart_id.v, req.user_id)
         IN IF found = {} THEN Reply(404, <<>>, 1)
            ELSE LET c == CHOOSE c \in found : TRUE
                     items == CartItemsOf(c.id)
                     store_products == StoreProducts(items)
                     filtered_stores == CompleteStores(ObjectValues(store_products), items)
                     non_empty_stores == SelectSeq(filtered_stores,
                                                   LAMBDA st : Len(st.products) > 0)
                 IN Reply(200, SortByTotal(non_empty_stores), 1)

(***************************************************************************)
(* /cart requests. Express runs each handler up to its next await; every   *)
(* awaited Prisma call is one step, and the steps of requests in flight    *)
(* interleave. A request slot runs one request at a time.                  *)
(***************************************************************************)
Procs == {1, 2}

\* Math.min / Math.max of a list of prices
Infinity == [k |-> "inf", v |-> 0]
MinusInfinity == [k |-> "-inf", v |-> 0]
NoPrice == [k |-> "absent", v |-> 0]

\* the JSON body of a cart answer
NoBody == [id |-> 0, lines |-> {}, min_price |-> NoPrice, max_price |-> NoPrice, details |-> ""]

\* the body of a 500 answer: { error, details: err.message }, err.message
\* naming what failed
CallFailed == [NoBody EXCEPT !.details = "call failed"]
UniqueFailed(table) == [NoBody EXCEPT !.details = "unique constraint failed: " \o table]
UpdateNotFound == [NoBody EXCEPT !.details = "record to update not found"]

\* the tables as one value
Db(u, c, ci) == [users |-> u, cart |-> c, cart_items |-> ci]
EmptyDb == Db({}, {}, {})

\* wrote: whether a call of the request has changed the tables; overlap:
\* whether another /cart request was in flight at some point of this one;
\* removed: -1, or the quantity column of the cart row at the moment the
\* request's deleteMany deleted a stored line of that cart; had_cart: whether
\* the cart table held a row of the user when a GET request arrived
Idle == [pc |-> "idle", kind |-> "none", user_id |-> "", product_id |-> 0, quantity |-> 0,
         cart_id |-> 0, wrote |-> FALSE, overlap |-> FALSE, removed |-> -1,
         had_cart |-> FALSE]

NoAnswer == [kind |-> "none", user_id |-> "", product_id |-> 0, quantity |-> 0,
             status |-> 0, body |-> NoBody, wrote |-> FALSE, overlap |-> FALSE,
             removed |-> -1, had_cart |-> FALSE]

\* an open transaction: its snapshot of the tables (taken by its first read)
\* and the writes it has not committed yet: user ids and cart rows inserted,
\* cart quantities set, cart_items rows inserted or updated (put), cart_items
\* keys deleted (del), and the carts it inserted a line for (fk: the foreign
\* key check of the insert share-locks the parent cart row)
NoWrites == [users |-> {}, cart |-> {}, quantity |-> {}, put |-> {}, del |-> {}, fk |-> {}]
NoTx == [open |-> FALSE, view |-> EmptyDb, wr |-> NoWrites]

(***************************************************************************)
(* The shopping-results specification: the catalogue and one user's cart   *)
(* are drawn from the bounded sets; each action is one request answered by *)
(* one version of the handler. The handlers only read the tables.          *)
(***************************************************************************)
NoRequest == Request(Absent, "", Absent, "", <<>>)
NoResp == [variant |-> "none", req |-> NoRequest, status |-> 0, body |-> <<>>, dbAccess |-> 0]

\* the lines of cart 1: product p with quantity q[p] when q[p] > 0, the
\* line of product `first` inserted first
LinesOf(q, first) ==
    { [id |-> IF p = first THEN 1 ELSE 2, cart_id |-> 1, product_id |-> p, quantity |-> q[p]] :
        p \in {x \in Products : q[x] > 0} }

ShopInit ==
    /\ users = UserIds
    /\ \E q \in [Products -> 0..MaxQty] :
         \E first \in Products :
            /\ (\E p \in Products : q[p] = 0) => first = 1
            /\ cart_items = LinesOf(q, first)
            /\ cart = { [id |-> 1, user_id |-> "u1", quantity |-> Cardinality(LinesOf(q, first))],
                        [id |-> 2, user_id |-> "u2", quantity |-> 0] }
    /\ product_store \in OfferTables
    /\ products = ProductRows
    /\ nextCartId = 3
    /\ nextItemId = 3
    /\ resp = NoResp
    /\ proc = [p \in Procs |-> Idle]
    /\ tx = [p \in Procs |-> NoTx]
    /\ started = 0
    /\ last = NoAnswer

\* requests for the user's own cart, over every filter combination
FilterRequests ==
    { Request(Num(1), "u1", r, l, s) :
        r \in {Absent, Num(50000), Num(49998)},
        l \in {""} \cup Locations,
        s \in {<<>>, <<1>>, <<2, 3>>} }

\* requests with missing, malformed or foreign parameters
OddRequests ==
    { Request(c, u, r, l, <<>>) :
        c \in {Absent, NotNum, Num(1), Num(2)},
        u \in {"", "u1", "u2"},
        r \in {Absent, Num(50000)},
        l \in {"", "bad", "L1"} }
    \cup { Request(Num(1), "u1", NotNum, l, <<>>) : l \in {"", "L1"} }

ShopRequests == FilterRequests \cup OddRequests

\* each behaviour answers one request: the handlers keep no state between
\* requests, and the tables are not written
Answer(variant, req, reply) ==
    /\ resp = NoResp
    /\ resp' = [variant |-> variant, req |-> req, status |-> reply.status,
                body |-> reply.body, dbAccess |-> reply.dbAccess]
    /\ UNCHANGED <<users, cart, cart_items, product_store, products, nextCartId, nextItemId,
                   proc, tx, started, last>>

GetShoppingResultsIndex == \E req \in ShopRequests : Answer("index", req, ShoppingResultsIndex(req))
GetShoppingResultsEndpoint == \E req \in ShopRequests : Answer("endpoint", req, ShoppingResultsEndpoint(req))
GetShoppingResultsPart004 == \E req \in ShopRequests : Answer("part_004", req, ShoppingResultsPart004(req))
GetShoppingResultsPart009 == \E req \in ShopRequests : Answer("part_009", req, ShoppingResultsPart009(req))
GetShoppingResultsPart008 == \E req \in ShopRequests : Answer("part_008", req, ShoppingResultsPart008(req))

ShopNext ==
    \/ GetShoppingResultsIndex
    \/ GetShoppingResultsEndpoint
    \/ GetShoppingResultsPart004
    \/ GetShoppingResultsPart009
    \/ GetShoppingResultsPart008

SpecShop == ShopInit /\ [][ShopNext]_vars

(***************************************************************************)
(* Properties of GET /shopping-results (checked under SpecShop).           *)
(***************************************************************************)
Answered == resp.variant # "none"

\* the request names the user's own cart and every parameter is well formed
WellFormed(req) ==
    /\ req.cart_id = Num(1) /\ req.user_id = "u1"
    /\ req.radius.k # "nan"
    /\ req.user_location \in Locations \cup {""}
    /\ ~(Truthy(req.radius) /\ req.user_location = "")

Offers(store_id, product_id) ==
    \E i \in 1..Len(product_store) :
        product_store[i].store_id = store_id /\ product_store[i].product_id = product_id

\* the store's price for the product (the rows of one pair carry one price
\* in every table of the model)
PriceAt(store_id, product_id) ==
    LET i == CHOOSE i \in 1..Len(product_store) :
                product_store[i].store_id = store_id /\ product_store[i].product_id = product_id
    IN product_store[i].price

\* the stores that offer at least one product of cart 1
AggregatedStoreIds ==
    {sid \in Stores : \E it \in cart_items : it.cart_id = 1 /\ Offers(sid, it.product_id)}

BodyStoreIds == {resp.body[i].store_id : i \in 1..Len(resp.body)}

\* sum over the cart lines whose product the store offers of price * quantity
ExpectedTotal(store_id) ==
    LET items == CartItemsOf(1)
    IN SeqSum([i \in 1..Len(items) |->
                 IF Offers(store_id, items[i].product_id)
                 THEN PriceAt(store_id, items[i].product_id) * items[i].quantity
                 ELSE 0])

\* C1: every returned store's total is the sum, over exactly the cart lines
\* whose product the store offers, of the store's price times the quantity.
C1_TotalIsSumOverLines ==
    (Answered /\ resp.status = 200) =>
        \A i \in 1..Len(resp.body) :
            resp.body[i].total = ExpectedTotal(resp.body[i].store_id)

\* C5: the returned list is ordered by total ascending, stores of equal
\* total in ascending store-id order.
C5_OrderedByTotalThenStoreId ==
    (resp.variant \in {"index", "endpoint"} /\ resp.status = 200) =>
        \A i, j \in 1..Len(resp.body) :
            i < j => \/ resp.body[i].total < resp.body[j].total
                     \/ /\ resp.body[i].total = resp.body[j].total
                        /\ resp.body[i].store_id < resp.body[j].store_id

\* C6: with a store-id allowlist supplied, every returned store is in it.
C6_OnlyAllowlistedStores ==
    (resp.variant \in {"index", "part_009"} /\ resp.status = 200 /\ resp.req.store_ids # <<>>) =>
        BodyStoreIds \subseteq Range(resp.req.store_ids)

\* C7: with a radius and a user location supplied, a store (passing the
\* other filters) is returned if and only if its distance from the user
\* location does not exceed the radius.
C7_ReturnedIffWithinRadius ==
    (/\ resp.variant \in {"index", "endpoint", "part_004"}
     /\ resp.status = 200
     /\ resp.req.radius.k = "num"
     /\ resp.req.user_location \in Locations) =>
        BodyStoreIds = {sid \in AggregatedStoreIds :
                           Haversine(resp.req.user_location, sid) <= resp.req.radius.v}

\* C8: a request with radius set and no user_location gets a 4xx answer and
\* touches the data store not at all.
C8_RadiusWithoutLocationRejected ==
    (/\ resp.variant \in {"index", "endpoint"}
     /\ Truthy(resp.req.radius)
     /\ resp.req.user_location = "") =>
        /\ resp.status \in 400..499
        /\ resp.dbAccess = 0

\* the cart of the two-line scenario: product 1 (A) twice, product 2 (B) once
ScenarioCart ==
    {[product_id |-> it.product_id, quantity |-> it.quantity] : it \in cart_items}
        = {[product_id |-> 1, quantity |-> 2], [product_id |-> 2, quantity |-> 1]}

Scenario ==
    /\ ScenarioCart
    /\ product_store = ScenarioOffers
    /\ resp.req.cart_id = Num(1) /\ resp.req.user_id = "u1"
    /\ resp.req.store_ids = <<>> /\ ~Truthy(resp.req.radius)

Summary == [i \in 1..Len(resp.body) |-> <<resp.body[i].store_id, resp.body[i].total>>]

\* C9: under the completeness policy a store is returned only if it has an
\* offer for every product of the cart; in the two-line scenario the result
\* is X alone with completeness and Y then X without it.
C9_CompletenessFilter ==
    /\ (resp.variant \in {"part_009", "part_008"} /\ resp.status = 200) =>
          \A sid \in BodyStoreIds :
             \A it \in cart_items : it.cart_id = 1 => Offers(sid, it.product_id)
    /\ (Scenario /\ resp.variant = "part_008") =>
          (resp.status = 200 /\ Summary = << <<1, 1100>> >>)
    /\ (Scenario /\ resp.variant = "part_009" /\ resp.req.user_location = "L2") =>
          (resp.status = 200 /\ Summary = << <<1, 1100>> >>)
    /\ (Scenario /\ resp.variant = "index" /\ resp.req.user_location \in Locations \cup {""}) =>
          (resp.status = 200 /\ Summary = << <<2, 500>>, <<1, 1100>> >>)

C9_Witness ==
    /\ Scenario
    /\ resp.variant = "part_008"
    /\ resp.status = 200
    /\ BodyStoreIds = {1}
    /\ 2 \in AggregatedStoreIds

\* no aggregated store passes the filters the request supplies
NoStoreMatches(req) ==
    \A sid \in AggregatedStoreIds :
        ~ /\ (req.store_ids = <<>> \/ sid \in Range(req.store_ids))
          /\ (Truthy(req.radius) => Haversine(req.user_location, sid) <= req.radius.v)

\* C10: for a cart that exists and belongs to the user, when no store
\* matches the answer is a successful empty list.
C10_EmptyResultIsSuccess ==
    (/\ resp.variant \in {"index", "endpoint"}
     /\ WellFormed(resp.req)
     /\ NoStoreMatches(resp.req)) =>
        (resp.status = 200 /\ resp.body = <<>>)

(***************************************************************************)
(* GET /cart and POST /cart without a transaction:                         *)
(* src/endpoints/cart.js with src/utils/fetch_or_create_cart.js (the same  *)
(* code as app.post('/cart') and fetch_or_create_cart in src/index.js).    *)
(* Every Prisma call commits on its own.                                   *)
(***************************************************************************)
Running(p) == proc[p].pc # "idle"

Committed == Db(users, cart, cart_items)

\* whether the step being taken by request p changes the tables, or an
\* earlier step of p did
Wrote(p) == proc[p].wrote \/ Db(users', cart', cart_items') # Committed

\* res.status(status).json(body): the request is over
Finish(p, status, body) ==
    /\ proc' = [proc EXCEPT ![p] = Idle]
    /\ last' = [kind |-> proc[p].kind, user_id |-> proc[p].user_id,
                product_id |-> proc[p].product_id, quantity |-> proc[p].quantity,
                status |-> status, body |-> body,
                wrote |-> Wrote(p), overlap |-> proc[p].overlap,
                removed |-> proc[p].removed, had_cart |-> proc[p].had_cart]

\* the handler goes on to its next await
Goto(p, pc) ==
    proc' = [proc EXCEPT ![p].pc = pc, ![p].wrote = Wrote(p)] /\ UNCHANGED last

\* after deleteMany: `count` is the cart row's quantity column if a line was
\* deleted, -1 if there was none to delete
GotoAfterDelete(p, pc, count) ==
    /\ proc' = [proc EXCEPT ![p].pc = pc, ![p].wrote = Wrote(p), ![p].removed = count]
    /\ UNCHANGED last

\* with the cart it found or created
GotoWithCart(p, pc, cart_id) ==
    /\ proc' = [proc EXCEPT ![p].pc = pc, ![p].cart_id = cart_id, ![p].wrote = Wrote(p)]
    /\ UNCHANGED last

\* a request arrives and takes the lowest free slot; its handler runs to its
\* first await (pc), or answers at once with `status`
Begin(p, kind, user_id, product_id, quantity, pc, status) ==
    /\ ~Running(p)
    /\ \A q \in Procs : q < p => Running(q)
    /\ started < MaxRequests
    /\ started' = started + 1
    /\ LET others == \E q \in Procs : Running(q)
           r == [pc |-> pc, kind |-> kind, user_id |-> user_id, product_id |-> product_id,
                 quantity |-> quantity, cart_id |-> 0, wrote |-> FALSE, overlap |-> others,
                 removed |-> -1,
                 had_cart |-> kind = "get" /\ \E c \in cart : c.user_id = user_id]
       IN IF pc = "done"
          THEN /\ UNCHANGED proc
               /\ last' = [kind |-> kind, user_id |-> user_id, product_id |-> product_id,
                           quantity |-> quantity, status |-> status, body |-> NoBody,
                           wrote |-> FALSE, overlap |-> FALSE, removed |-> -1,
                           had_cart |-> FALSE]
          ELSE /\ proc' = [q \in Procs |->
                             IF q = p THEN r
                             ELSE IF Running(q) THEN [proc[q] EXCEPT !.overlap = TRUE]
                             ELSE proc[q]]
               /\ UNCHANGED last

PriceSet(items) ==
    {product_store[i].price : i \in {j \in 1..Len(product_store) :
                                        \E it \in items : it.product_id = product_store[j].product_id}}

\* a minimum that takes the largest element
MutMinOfLargest(S) == IF S = {} THEN Infinity ELSE Num(CHOOSE x \in S : \A y \in S : x >= y)

MinOf(S) == IF S = {} THEN Infinity ELSE Num(CHOOSE x \in S : \A y \in S : x <= y)
MaxOf(S) == IF S = {} THEN MinusInfinity ELSE Num(CHOOSE x \in S : \A y \in S : x >= y)

LinesIn(items) == {[product_id |-> it.product_id, quantity |-> it.quantity] : it \in items}

\* the cart as findFirst({ where: { user_id }, include: ... }) loads it from `db`
ItemsIn(db, cart_id) == {it \in db.cart_items : it.cart_id = cart_id}

\* responseData of POST /cart: Math.min(...prices), Math.max(...prices)
CartWithMinMax(db, c) ==
    [id |-> c.id, lines |-> LinesIn(ItemsIn(db, c.id)),
     min_price |-> MinOf(PriceSet(ItemsIn(db, c.id))),
     max_price |-> MaxOf(PriceSet(ItemsIn(db, c.id))), details |-> ""]

\* res.json(cart) of GET /cart: the cart as loaded
CartAsLoaded(db, c) ==
    [id |-> c.id, lines |-> LinesIn(ItemsIn(db, c.id)),
     min_price |-> NoPrice, max_price |-> NoPrice, details |-> ""]

CartsOfUser(db, user_id) == {c \in db.cart : c.user_id = user_id}

\* a deleteMany whose where clause names the product only
MutDeleteManyAnyCart(items, cart_id, product_id) ==
    {it \in items : it.product_id # product_id}

MutDeleteManyNone(items, cart_id, product_id) == items

\* cart_items.deleteMany({ where: { cart_id, product_id } })
DeleteMany(items, cart_id, product_id) ==
    {it \in items : ~(it.cart_id = cart_id /\ it.product_id = product_id)}

\* an upsert that inserts whether or not the line exists
MutUpsertAlwaysInserts(items, cart_id, product_id, quantity, id) ==
    items \cup {[id |-> id, cart_id |-> cart_id, product_id |-> product_id,
                 quantity |-> quantity]}

MutUpsertAddsQuantity(items, cart_id, product_id, quantity, id) ==
    IF \E it \in items : it.cart_id = cart_id /\ it.product_id = product_id
    THEN {IF it.cart_id = cart_id /\ it.product_id = product_id
          THEN [it EXCEPT !.quantity = @ + quantity] ELSE it : it \in items}
    ELSE items \cup {[id |-> id, cart_id |-> cart_id, product_id |-> product_id,
                      quantity |-> quantity]}

\* cart_items.upsert({ where: { cart_id_product_id }, update: { quantity }, create: {...} })
Upsert(items, cart_id, product_id, quantity, id) ==
    IF \E it \in items : it.cart_id = cart_id /\ it.product_id = product_id
    THEN {IF it.cart_id = cart_id /\ it.product_id = product_id
          THEN [it EXCEPT !.quantity = quantity] ELSE it : it \in items}
    ELSE items \cup {[id |-> id, cart_id |-> cart_id, product_id |-> product_id,
                      quantity |-> quantity]}

HasItem(items, cart_id, product_id) ==
    \E it \in items : it.cart_id = cart_id /\ it.product_id = product_id

\* the quantity column of cart row `cart_id` in `db`
CountOf(db, cart_id) == (CHOOSE c \in db.cart : c.id = cart_id).quantity

Untouched == UNCHANGED <<product_store, products, resp, tx>>

\* the parameters /cart requests are started with ("" is a missing user_id,
\* 9 a product_id with no row in products)
CartUserParams == {"", "u1"}
ProductParams == Products \cup {9}
QuantityParams == {-1, 0, 1, 2}

\* router.get('/'): if (!user_id) 400, else fetchOrCreateCart(user_id)
StartGet ==
    \E p \in Procs, u \in CartUserParams :
        /\ UNCHANGED <<users, cart, cart_items, nextCartId, nextItemId>>
        /\ Begin(p, "get", u, 0, 0,
                 IF u = "" THEN "done" ELSE "get_findFirst",
                 IF u = "" THEN 400 ELSE 0)
        /\ Untouched

\* a lookup that never finds the user's cart
MutGetFindFirstMisses ==
    \E p \in Procs :
        /\ proc[p].pc = "get_findFirst"
        /\ UNCHANGED <<users, cart, cart_items, nextCartId, nextItemId, started>>
        /\ Goto(p, "get_create")
        /\ Untouched

\* fetchOrCreateCart: prisma.cart.findFirst({ where: { user_id } }); without
\* orderBy any cart of the user may be the first
GetFindFirst ==
    \E p \in Procs :
        /\ proc[p].pc = "get_findFirst"
        /\ UNCHANGED <<users, cart, cart_items, nextCartId, nextItemId, started>>
        /\ \/ /\ CartsOfUser(Committed, proc[p].user_id) = {}
              /\ Goto(p, "get_create")
           \/ \E c \in CartsOfUser(Committed, proc[p].user_id) :
                 Finish(p, 200, CartAsLoaded(Committed, c))
        /\ Untouched

\* fetchOrCreateCart: prisma.cart.create({ data: { user_id, cart_items: { create: [] } } })
GetCreate ==
    \E p \in Procs :
        /\ proc[p].pc = "get_create"
        /\ UNCHANGED <<users, cart_items, nextItemId, started>>
        /\ LET c == [id |-> nextCartId, user_id |-> proc[p].user_id, quantity |-> 0]
           IN /\ cart' = cart \cup {c}
              /\ nextCartId' = nextCartId + 1
              /\ Finish(p, 200, CartAsLoaded(Db(users, cart', cart_items), c))
        /\ Untouched

\* router.post('/'): the required-parameter check
StartPost ==
    \E p \in Procs, u \in CartUserParams, pid \in ProductParams, q \in QuantityParams :
        /\ UNCHANGED <<users, cart, cart_items, nextCartId, nextItemId>>
        /\ Begin(p, "post", u, pid, q,
                 IF u = "" THEN "done" ELSE "findUser",
                 IF u = "" THEN 400 ELSE 0)
        /\ Untouched

\* prisma.users.findUnique({ where: { user_id } })
FindUser ==
    \E p \in Procs :
        /\ proc[p].pc = "findUser"
        /\ UNCHANGED <<users, cart, cart_items, nextCartId, nextItemId, started>>
        /\ Goto(p, IF proc[p].user_id \in users THEN "findProduct" ELSE "createUser")
        /\ Untouched

\* prisma.users.create({ data: { user_id } }); user_id is the primary key, so
\* the call throws when the row exists by now and the catch answers 500
CreateUser ==
    \E p \in Procs :
        /\ proc[p].pc = "createUser"
        /\ UNCHANGED <<cart, cart_items, nextCartId, nextItemId, started>>
        /\ IF proc[p].user_id \in users
           THEN UNCHANGED users /\ Finish(p, 500, UniqueFailed("users"))
           ELSE users' = users \cup {proc[p].user_id} /\ Goto(p, "findProduct")
        /\ Untouched

\* the handler without its product check
MutFindProductUnchecked ==
    \E p \in Procs :
        /\ proc[p].pc = "findProduct"
        /\ UNCHANGED <<users, cart, cart_items, nextCartId, nextItemId, started>>
        /\ Goto(p, "findCart")
        /\ Untouched

\* prisma.products.findUnique({ where: { product_id } }); 404 if there is none
FindProduct ==
    \E p \in Procs :
        /\ proc[p].pc = "findProduct"
        /\ UNCHANGED <<users, cart, cart_items, nextCartId, nextItemId, started>>
        /\ IF proc[p].product_id \in Products
           THEN Goto(p, "findCart")
           ELSE Finish(p, 404, NoBody)
        /\ Untouched

\* prisma.cart.findFirst({ where: { user_id } })
FindFirstCart ==
    \E p \in Procs :
        /\ proc[p].pc = "findCart"
        /\ UNCHANGED <<users, cart, cart_items, nextCartId, nextItemId, started>>
        /\ \/ /\ CartsOfUser(Committed, proc[p].user_id) = {}
              /\ Goto(p, "createCart")
           \/ \E c \in CartsOfUser(Committed, proc[p].user_id) :
                 GotoWithCart(p, "mutate", c.id)
        /\ Untouched

\* prisma.cart.create({ data: { user_id, cart_items: { create: [] } } })
CreateCart ==
    \E p \in Procs :
        /\ proc[p].pc = "createCart"
        /\ UNCHANGED <<users, cart_items, nextItemId, started>>
        /\ cart' = cart \cup {[id |-> nextCartId, user_id |-> proc[p].user_id, quantity |-> 0]}
        /\ nextCartId' = nextCartId + 1
        /\ GotoWithCart(p, "mutate", nextCartId)
        /\ Untouched

\* if (quantity === 0) deleteMany(...) else upsert(...)
MutateItem ==
    \E p \in Procs :
        /\ proc[p].pc = "mutate"
        /\ UNCHANGED <<users, cart, nextCartId, started>>
        /\ IF proc[p].quantity = 0
           THEN /\ cart_items' = DeleteMany(cart_items, proc[p].cart_id, proc[p].product_id)
                /\ UNCHANGED nextItemId
                /\ GotoAfterDelete(p, "reload",
                        IF HasItem(cart_items, proc[p].cart_id, proc[p].product_id)
                        THEN CountOf(Committed, proc[p].cart_id) ELSE -1)
           ELSE /\ cart_items' = Upsert(cart_items, proc[p].cart_id, proc[p].product_id,
                                        proc[p].quantity, nextItemId)
                /\ nextItemId' = IF HasItem(cart_items, proc[p].cart_id, proc[p].product_id)
                                 THEN nextItemId ELSE nextItemId + 1
                /\ Goto(p, "reload")
        /\ Untouched

\* the second findFirst({ where: { user_id } }), min_price/max_price, res.json
Reload ==
    \E p \in Procs :
        /\ proc[p].pc = "reload"
        /\ UNCHANGED <<users, cart, cart_items, nextCartId, nextItemId, started>>
        /\ \E c \in CartsOfUser(Committed, proc[p].user_id) :
              Finish(p, 200, CartWithMinMax(Committed, c))
        /\ Untouched

\* an awaited Prisma call rejects (the data store is unreachable, the query
\* fails): the handler's catch answers 500; the call itself changed nothing
CallFails ==
    \E p \in Procs :
        /\ Running(p)
        /\ UNCHANGED <<users, cart, cart_items, nextCartId, nextItemId, started>>
        /\ Finish(p, 500, CallFailed)
        /\ Untouched

CartInit ==
    /\ \/ users = {} /\ cart = {} /\ nextCartId = 1
       \/ /\ users = {"u1"}
          /\ cart = {[id |-> 1, user_id |-> "u1", quantity |-> 0]}
          /\ nextCartId = 2
    /\ cart_items = {}
    /\ nextItemId = 1
    /\ product_store = ScenarioOffers
    /\ products = ProductRows
    /\ resp = NoResp
    /\ proc = [p \in Procs |-> Idle]
    /\ tx = [p \in Procs |-> NoTx]
    /\ started = 0
    /\ last = NoAnswer

CartNext ==
    \/ StartGet
    \/ GetFindFirst
    \/ GetCreate
    \/ StartPost
    \/ FindUser
    \/ CreateUser
    \/ FindProduct
    \/ FindFirstCart
    \/ CreateCart
    \/ MutateItem
    \/ Reload
    \/ CallFails

SpecCart == CartInit /\ [][CartNext]_vars

(***************************************************************************)
(* POST /cart and GET /cart inside prisma.$transaction. The datasource is  *)
(* MySQL and no isolation level is passed, so a transaction runs at        *)
(* REPEATABLE READ: its plain reads see the snapshot taken by its first    *)
(* read plus its own writes, its writes lock the rows they touch until it  *)
(* ends, and a write that needs a row locked by another transaction waits. *)
(***************************************************************************)
Key(it) == <<it.cart_id, it.product_id>>

Keys(items) == {Key(it) : it \in items}

\* the tables `db` with the writes `wr` applied
Apply(db, wr) ==
    [users |-> db.users \cup wr.users,
     cart |-> {IF \E u \in wr.quantity : u.id = c.id
               THEN [c EXCEPT !.quantity = (CHOOSE u \in wr.quantity : u.id = c.id).quantity]
               ELSE c : c \in db.cart \cup wr.cart},
     cart_items |-> {it \in db.cart_items : Key(it) \notin wr.del \cup Keys(wr.put)}
                    \cup wr.put]

\* what a read of transaction p returns
Visible(p) == Apply(tx[p].view, tx[p].wr)

OtherOpen(p) == {q \in Procs \ {p} : tx[q].open}

\* rows another open transaction holds a lock on
UserLocked(p, user_id) == \E q \in OtherOpen(p) : user_id \in tx[q].wr.users
ItemLocked(p, key) == \E q \in OtherOpen(p) : key \in Keys(tx[q].wr.put) \cup tx[q].wr.del
CartWriteLocked(p, cart_id) == \E q \in OtherOpen(p) : \E u \in tx[q].wr.quantity : u.id = cart_id
CartReadLocked(p, cart_id) == \E q \in OtherOpen(p) : cart_id \in tx[q].wr.fk

\* transaction p goes on with one more write
Write(p, wr) == tx' = [tx EXCEPT ![p].wr = wr]

\* the transaction callback throws: the transaction is rolled back and the
\* handler's catch answers 500
Rollback(p, body) ==
    /\ tx' = [tx EXCEPT ![p] = NoTx]
    /\ Finish(p, 500, body)

\* getCartWithDetails: prices.length ? Math.min(...prices) : 0
CartWithDetails(db, c) ==
    LET prices == PriceSet(ItemsIn(db, c.id))
    IN [id |-> c.id, lines |-> LinesIn(ItemsIn(db, c.id)),
        min_price |-> IF prices = {} THEN Num(0) ELSE MinOf(prices),
        max_price |-> IF prices = {} THEN Num(0) ELSE MaxOf(prices), details |-> ""]

TablesUnchanged == UNCHANGED <<users, cart, cart_items>>

\* router.get('/'): if (!user_id) 400, else fetchOrCreateCart(user_id)
TxStartGet ==
    \E p \in Procs, u \in CartUserParams :
        /\ TablesUnchanged
        /\ Begin(p, "get", u, 0, 0,
                 IF u = "" THEN "done" ELSE "tx_findUser",
                 IF u = "" THEN 400 ELSE 0)
        /\ UNCHANGED <<nextCartId, nextItemId, product_store, products, resp, tx>>

\* router.post('/'): the required-parameter check
TxStartPost ==
    \E p \in Procs, u \in CartUserParams, pid \in ProductParams, q \in QuantityParams :
        /\ TablesUnchanged
        /\ Begin(p, "post", u, pid, q,
                 IF u = "" THEN "done" ELSE "tx_findProduct",
                 IF u = "" THEN 400 ELSE 0)
        /\ UNCHANGED <<nextCartId, nextItemId, product_store, products, resp, tx>>

\* prisma.products.findUnique before the transaction; 404 if there is none
TxFindProduct ==
    \E p \in Procs :
        /\ proc[p].pc = "tx_findProduct"
        /\ TablesUnchanged
        /\ IF proc[p].product_id \in Products
           THEN Goto(p, "tx_findUser")
           ELSE Finish(p, 404, NoBody)
        /\ UNCHANGED <<nextCartId, nextItemId, product_store, products, resp, tx, started>>

\* prisma.$transaction begins; ensureUser: tx.users.findUnique, the first
\* read, which takes the snapshot
TxFindUser ==
    \E p \in Procs :
        /\ proc[p].pc = "tx_findUser"
        /\ TablesUnchanged
        /\ tx' = [tx EXCEPT ![p] = [open |-> TRUE, view |-> Committed, wr |-> NoWrites]]
        /\ Goto(p, IF proc[p].user_id \in users THEN "tx_findCart" ELSE "tx_createUser")
        /\ UNCHANGED <<nextCartId, nextItemId, product_store, products, resp, started>>

\* ensureUser: tx.users.create; waits while another transaction holds the
\* uncommitted row, fails on a committed row with this primary key
TxCreateUser ==
    \E p \in Procs :
        /\ proc[p].pc = "tx_createUser"
        /\ ~UserLocked(p, proc[p].user_id)
        /\ TablesUnchanged
        /\ IF proc[p].user_id \in users
           THEN Rollback(p, UniqueFailed("users"))
           ELSE /\ Write(p, [tx[p].wr EXCEPT !.users = @ \cup {proc[p].user_id}])
                /\ Goto(p, "tx_findCart")
        /\ UNCHANGED <<nextCartId, nextItemId, product_store, products, resp, started>>

\* where the transaction callback goes after ensureCart
AfterEnsureCart(p) == IF proc[p].kind = "get" THEN "tx_reload" ELSE "tx_mutate"

\* ensureCart: tx.cart.findFirst({ where: { user_id } })
TxFindCart ==
    \E p \in Procs :
        /\ proc[p].pc = "tx_findCart"
        /\ TablesUnchanged
        /\ \/ /\ CartsOfUser(Visible(p), proc[p].user_id) = {}
              /\ Goto(p, "tx_createCart")
           \/ \E c \in CartsOfUser(Visible(p), proc[p].user_id) :
                 GotoWithCart(p, AfterEnsureCart(p), c.id)
        /\ UNCHANGED <<nextCartId, nextItemId, product_store, products, resp, tx, started>>

\* ensureCart: tx.cart.create({ data: { user_id, quantity: 0 } })
TxCreateCart ==
    \E p \in Procs :
        /\ proc[p].pc = "tx_createCart"
        /\ TablesUnchanged
        /\ Write(p, [tx[p].wr EXCEPT !.cart = @ \cup {[id |-> nextCartId,
                                                       user_id |-> proc[p].user_id,
                                                       quantity |-> 0]}])
        /\ nextCartId' = nextCartId + 1
        /\ GotoWithCart(p, AfterEnsureCart(p), nextCartId)
        /\ UNCHANGED <<nextItemId, product_store, products, resp, started>>

\* updateCartItem: if (quantity === 0) tx.cart_items.deleteMany(...) else
\* tx.cart_items.upsert(...). The statement waits while another transaction
\* holds the line, and an insert waits while another transaction holds the
\* parent cart row for writing. deleteMany deletes the row as committed now;
\* upsert looks the line up in what the transaction reads and then updates
\* or inserts it, which fails when the committed table disagrees.
TxMutateItem ==
    \E p \in Procs :
        LET key == <<proc[p].cart_id, proc[p].product_id>>
            wr == tx[p].wr
            seen == {it \in Visible(p).cart_items : Key(it) = key}
            cur == {it \in cart_items : Key(it) = key}
            row == [id |-> nextItemId, cart_id |-> proc[p].cart_id,
                    product_id |-> proc[p].product_id, quantity |-> proc[p].quantity]
        IN
        /\ proc[p].pc = "tx_mutate"
        /\ ~ItemLocked(p, key)
        /\ TablesUnchanged
        /\ IF proc[p].quantity = 0
           THEN /\ Write(p, [wr EXCEPT !.put = {it \in @ : Key(it) # key},
                                       !.del = IF cur # {} THEN @ \cup {key} ELSE @])
                /\ GotoAfterDelete(p, "tx_count",
                        IF cur # {} THEN CountOf(Visible(p), proc[p].cart_id) ELSE -1)
                /\ UNCHANGED nextItemId
           ELSE IF seen # {}
           THEN /\ IF cur # {}
                   THEN /\ Write(p, [wr EXCEPT !.put = {it \in @ : Key(it) # key} \cup
                                        {[it EXCEPT !.quantity = proc[p].quantity] : it \in cur}])
                        /\ Goto(p, "tx_count")
                   ELSE Rollback(p, UpdateNotFound)
                /\ UNCHANGED nextItemId
           ELSE /\ ~CartWriteLocked(p, proc[p].cart_id)
                /\ IF cur # {}
                   THEN Rollback(p, UniqueFailed("cart_items")) /\ UNCHANGED nextItemId
                   ELSE /\ Write(p, [wr EXCEPT !.put = @ \cup {row},
                                               !.fk = @ \cup {proc[p].cart_id}])
                        /\ nextItemId' = nextItemId + 1
                        /\ Goto(p, "tx_count")
        /\ UNCHANGED <<nextCartId, product_store, products, resp, started>>

\* updateCartItem: tx.cart_items.count({ where: { cart_id } }) and then
\* tx.cart.update({ where: { id }, data: { quantity: uniqueProductCount } });
\* the update waits while another transaction holds the cart row
TxRecount ==
    \E p \in Procs :
        LET uniqueProductCount == Cardinality(ItemsIn(Visible(p), proc[p].cart_id))
        IN
        /\ proc[p].pc = "tx_count"
        /\ ~CartWriteLocked(p, proc[p].cart_id)
        /\ ~CartReadLocked(p, proc[p].cart_id)
        /\ TablesUnchanged
        /\ Write(p, [tx[p].wr EXCEPT !.quantity = {u \in @ : u.id # proc[p].cart_id} \cup
                        {[id |-> proc[p].cart_id, quantity |-> uniqueProductCount]}])
        /\ Goto(p, "tx_reload")
        /\ UNCHANGED <<nextCartId, nextItemId, product_store, products, resp, started>>

\* getCartWithDetails(user_id, tx), then the transaction commits and the
\* handler answers: res.json(updatedCart), or 404 if there is no cart
TxReloadCommit ==
    \E p \in Procs :
        /\ proc[p].pc = "tx_reload"
        /\ users' = Apply(Committed, tx[p].wr).users
        /\ cart' = Apply(Committed, tx[p].wr).cart
        /\ cart_items' = Apply(Committed, tx[p].wr).cart_items
        /\ tx' = [tx EXCEPT ![p] = NoTx]
        /\ IF CartsOfUser(Visible(p), proc[p].user_id) = {}
           THEN Finish(p, IF proc[p].kind = "post" THEN 404 ELSE 200, NoBody)
           ELSE \E c \in CartsOfUser(Visible(p), proc[p].user_id) :
                   Finish(p, 200, CartWithDetails(Visible(p), c))
        /\ UNCHANGED <<nextCartId, nextItemId, product_store, products, resp, started>>

\* an awaited call rejects (the data store is unreachable, a lock wait times
\* out, the transaction is the victim of a deadlock or runs out of its time):
\* an open transaction is rolled back and the handler's catch answers 500
TxFails ==
    \E p \in Procs :
        /\ Running(p)
        /\ TablesUnchanged
        /\ Rollback(p, CallFailed)
        /\ UNCHANGED <<nextCartId, nextItemId, product_store, products, resp, started>>

CartTxNext ==
    \/ TxStartGet
    \/ TxStartPost
    \/ TxFindProduct
    \/ TxFindUser
    \/ TxCreateUser
    \/ TxFindCart
    \/ TxCreateCart
    \/ TxMutateItem
    \/ TxRecount
    \/ TxReloadCommit
    \/ TxFails

SpecCartTx == CartInit /\ [][CartTxNext]_vars

(***************************************************************************)
(* Claims about the /cart handlers outside a transaction.                  *)
(***************************************************************************)
NoneRunning == \A p \in Procs : ~Running(p)

\* C3: in every reachable state, whatever the interleaving of GET /cart and
\* POST /cart requests of one user, the cart table holds at most one row per
\* user, and a user whose cart request was answered with success has one.
C3_AtMostOneCartPerUser ==
    /\ \A c1 \in cart, c2 \in cart : c1.user_id = c2.user_id => c1.id = c2.id
    /\ (last.status = 200 => CartsOfUser(Committed, last.user_id) # {})

\* C4: a POST /cart that ran with no other request in flight and was answered
\* with a server error has changed nothing in users, cart and cart_items.
C4_FailedMutationLeavesNoEffect ==
    (last.kind = "post" /\ last.status = 500 /\ ~last.overlap) => ~last.wrote

(***************************************************************************)
(* Claims about the /cart handlers inside a transaction.                   *)
(***************************************************************************)
\* C2: once the cart mutations in flight have all completed, every cart's
\* persisted distinct-line count equals the number of lines it holds, as it
\* would after the same mutations in some serial order.
C2_CountEqualsLinesAfterConcurrentMutations ==
    (NoneRunning /\ \A it \in cart_items : it.quantity >= 1)
        => \A c \in cart : c.quantity = Cardinality(ItemsIn(Committed, c.id))

(***************************************************************************)
(* Further claims about GET /shopping-results.                             *)
(***************************************************************************)
\* the products of the lines of the cart the answered request names
RequestedCartProducts ==
    {it.product_id : it \in {x \in cart_items : Num(x.cart_id) = resp.req.cart_id}}

\* C11: every store in a shopping-results answer has at least one line, and
\* each of its lines is a cart product the store has an offer for; a store
\* offering none of the cart's products is not in the answer.
C11_NoStoreWithoutMatchedLines ==
    (Answered /\ resp.status = 200) =>
        \A i \in 1..Len(resp.body) :
            /\ Len(resp.body[i].products) >= 1
            /\ \E p \in RequestedCartProducts : Offers(resp.body[i].store_id, p)

\* an answer with stores, for a table in which some store has offers but none
\* for a product of the cart
C11_Witness ==
    /\ resp.variant = "index"
    /\ resp.status = 200
    /\ resp.body # <<>>
    /\ \E i \in 1..Len(product_store) :
          /\ product_store[i].store_id \notin BodyStoreIds
          /\ \A p \in RequestedCartProducts : ~Offers(product_store[i].store_id, p)

\* C12: when a user location is supplied, with or without a radius, every
\* store of the answer carries a computed distance (a number or a "km"
\* string, never null or absent), a store at the user location included.
C12_DistanceAttachedWhenLocationSupplied ==
    (/\ resp.variant \in {"index", "part_004"}
     /\ resp.status = 200
     /\ resp.req.user_location \in Locations) =>
        \A i \in 1..Len(resp.body) : resp.body[i].distance.t \in {"num", "str"}

(***************************************************************************)
(* Further claims about POST /cart.                                        *)
(***************************************************************************)
\* C13: the delete of a quantity-0 update removes the (cart, product) line
\* if there is one and changes no other line; answered with success and
\* with no other request in flight, the request returns the cart as stored,
\* and the cart it worked on without a line for the product.
C13_QuantityZeroRemovesLine ==
    [][\A p \in Procs :
          /\ (proc[p].pc = "mutate" /\ proc[p].quantity = 0 /\ proc'[p].pc = "reload") =>
                cart_items' = {it \in cart_items :
                                  Key(it) # <<proc[p].cart_id, proc[p].product_id>>}
          /\ (/\ proc[p].pc = "reload" /\ proc[p].quantity = 0 /\ ~proc[p].overlap
              /\ proc'[p].pc = "idle" /\ last'.status = 200) =>
                /\ UNCHANGED cart_items
                /\ last'.body.lines = LinesIn(ItemsIn(Committed, last'.body.id))
                /\ last'.body.id = proc[p].cart_id =>
                      \A l \in last'.body.lines : l.product_id # proc[p].product_id
      ]_vars

\* a quantity-0 update, alone in flight, has removed the cart's only line
C13_Witness ==
    /\ last.kind = "post" /\ last.quantity = 0 /\ last.status = 200
    /\ ~last.overlap /\ last.wrote
    /\ nextItemId > 1 /\ cart_items = {}

\* the lines of `items` other than the one with key `key`
OtherLines(items, key) == {it \in items : Key(it) # key}

\* C14: the upsert of an update with quantity q > 0 leaves exactly one line
\* for the (cart, product) pair, with quantity q whatever it was before, and
\* changes no other line; when the line already has quantity q nothing
\* changes; the successful answer of a request that ran alone shows the line.
C14_UpsertSetsQuantity ==
    [][\A p \in Procs :
          LET key == <<proc[p].cart_id, proc[p].product_id>>
          IN /\ (proc[p].pc = "mutate" /\ proc[p].quantity > 0 /\ proc'[p].pc = "reload") =>
                   /\ Cardinality({it \in cart_items' : Key(it) = key}) = 1
                   /\ \A it \in cart_items' : Key(it) = key => it.quantity = proc[p].quantity
                   /\ OtherLines(cart_items', key) = OtherLines(cart_items, key)
                   /\ (\E it \in cart_items : Key(it) = key /\ it.quantity = proc[p].quantity)
                         => cart_items' = cart_items
             /\ (/\ proc[p].pc = "reload" /\ proc[p].quantity > 0 /\ ~proc[p].overlap
                 /\ proc'[p].pc = "idle" /\ last'.status = 200
                 /\ last'.body.id = proc[p].cart_id) =>
                   {l \in last'.body.lines : l.product_id = proc[p].product_id}
                       = {[product_id |-> proc[p].product_id, quantity |-> proc[p].quantity]}
      ]_vars

\* an update to quantity 2, alone in flight, of a line that had quantity 2
\* already: answered with success, nothing changed
C14_Witness ==
    /\ last.kind = "post" /\ last.quantity = 2 /\ last.status = 200
    /\ ~last.overlap /\ ~last.wrote
    /\ \E it \in cart_items : it.product_id = last.product_id /\ it.quantity = 2

\* C14 for the transactional handler (checked under SpecCartTx): when an
\* update with quantity q > 0 commits and is answered with success, the cart
\* holds exactly one line for the product, with quantity q, and the commit
\* changed no other line.
C14_TxUpsertSetsQuantity ==
    [][\A p \in Procs :
          LET key == <<proc[p].cart_id, proc[p].product_id>>
          IN (/\ proc[p].pc = "tx_reload" /\ proc[p].kind = "post" /\ proc[p].quantity > 0
              /\ proc'[p].pc = "idle" /\ last'.status = 200) =>
                   /\ Cardinality({it \in cart_items' : Key(it) = key}) = 1
                   /\ \A it \in cart_items' : Key(it) = key => it.quantity = proc[p].quantity
                   /\ OtherLines(cart_items', key) = OtherLines(cart_items, key)
      ]_vars

\* C15: every stored cart line has quantity >= 1.
C15_StoredQuantityAtLeastOne == \A it \in cart_items : it.quantity >= 1

\* C16: a cart update with quantity < 0 is rejected: it is never answered
\* with success, and its answer never carries a line with its quantity.
C16_NegativeQuantityRejected ==
    (last.kind = "post" /\ last.quantity < 0) =>
        /\ last.status # 200
        /\ \A l \in last.body.lines : l.quantity # last.quantity

\* C17: after cart updates run one after another, the distinct-line count
\* persisted on each cart equals the number of lines stored for the cart.
C17_CountEqualsLinesSequentially ==
    (NoneRunning /\ started = 1 /\ last.status = 200 /\ last.quantity >= 0) =>
        \A c \in cart : c.quantity = Cardinality(ItemsIn(Committed, c.id))

\* C18: a cart update is never answered with a failure because the user row
\* or the cart row exists already, whatever other request created it.
C18_NoFailureOnExistingRecord ==
    last.kind = "post" => last.body \notin {UniqueFailed("users"), UniqueFailed("cart")}

\* C19: a shopping-results request answered with a validation error (400)
\* was answered before any data-store call of the request.
C19_ValidationBeforeDataStoreAccess ==
    (resp.variant \in {"index", "part_004"} /\ resp.status = 400) => resp.dbAccess = 0

\* the request names a cart of another user than the one it supplies, and
\* its other parameters are well formed
ForeignCart(req) ==
    /\ req.cart_id.k = "num" /\ req.user_id # ""
    /\ \E c \in cart : c.id = req.cart_id.v /\ c.user_id # req.user_id
    /\ req.radius.k # "nan"
    /\ req.user_location \in Locations \cup {""}
    /\ ~(Truthy(req.radius) /\ req.user_location = "")

\* C20: a shopping-results request for a cart owned by another user is
\* answered not-found (404), and with no store aggregate.
C20_ForeignCartNotFound ==
    (resp.variant \in {"index", "endpoint"} /\ ForeignCart(resp.req)) =>
        (resp.status = 404 /\ resp.body = <<>>)

C22_ZeroQuantityRemovesAndLowersCount ==
    (/\ last.kind = "post" /\ last.quantity = 0 /\ last.status = 200
     /\ ~last.overlap /\ last.removed >= 0 /\ NoneRunning) =>
        /\ ~HasItem(cart_items, last.body.id, last.product_id)
        /\ CountOf(Committed, last.body.id) = last.removed - 1
        /\ LET reply == ShoppingResultsIndex(
                            Request(Num(last.body.id), last.user_id, Absent, "", <<>>))
           IN \A i \in 1..Len(reply.body) :
                 \A j \in 1..Len(reply.body[i].products) :
                    reply.body[i].products[j].product_id # last.product_id

\* C23: in every reachable state, whatever the interleaving of cart updates,
\* no two stored lines share the same (cart, product) pair.
C23_OneLinePerCartProduct ==
    \A a \in cart_items, b \in cart_items : Key(a) = Key(b) => a = b

\* two updates in flight at once have both upserted the same (cart, product)
\* pair, and one line is stored
C23_Witness ==
    /\ \A p \in Procs : /\ proc[p].pc = "reload" /\ proc[p].quantity >= 1
                         /\ proc[p].product_id = 1 /\ proc[p].cart_id = 1
    /\ Cardinality(cart_items) = 1

(***************************************************************************)
(* /cart requests of two users, src/endpoints/cart.js: the handler steps   *)
(* are those of SpecCart; the requests are started for u1 or u2, for       *)
(* product 1, with quantity 0 or 1.                                        *)
(***************************************************************************)
TwoUserParams == {"u1", "u2"}

\* router.get('/') with a user_id
StartGetAs ==
    \E p \in Procs, u \in TwoUserParams :
        /\ UNCHANGED <<users, cart, cart_items, nextCartId, nextItemId>>
        /\ Begin(p, "get", u, 0, 0, "get_findFirst", 0)
        /\ Untouched

\* router.post('/') with user_id, product_id and quantity
StartPostAs ==
    \E p \in Procs, u \in TwoUserParams, q \in {0, 1} :
        /\ UNCHANGED <<users, cart, cart_items, nextCartId, nextItemId>>
        /\ Begin(p, "post", u, 1, q, "findUser", 0)
        /\ Untouched

CartUsersNext ==
    \/ StartGetAs
    \/ GetFindFirst
    \/ GetCreate
    \/ StartPostAs
    \/ FindUser
    \/ CreateUser
    \/ FindProduct
    \/ FindFirstCart
    \/ CreateCart
    \/ MutateItem
    \/ Reload
    \/ CallFails

SpecCartUsers == CartInit /\ [][CartUsersNext]_vars

\* the cart rows of a user and the lines of those carts
CartStateOf(db, user_id) ==
    [carts |-> CartsOfUser(db, user_id),
     lines |-> {it \in db.cart_items :
                   \E c \in CartsOfUser(db, user_id) : c.id = it.cart_id}]

\* C24: a step that changes a user's cart rows (header, distinct-line count)
\* or the lines of those carts is a step of a request of that same user, in
\* every interleaving of requests of different users.
C24_OtherUsersCartsUnchanged ==
    [][\A u \in UserIds :
          CartStateOf(Db(users', cart', cart_items'), u) # CartStateOf(Committed, u) =>
             \E p \in Procs : /\ Running(p) /\ proc[p].user_id = u
                              /\ proc'[p] # proc[p]
      ]_vars

\* u1's update has written while u2's request is in flight and u2's cart
\* holds a line
C24_Witness ==
    /\ last.kind = "post" /\ last.user_id = "u1" /\ last.wrote /\ last.overlap
    /\ last.status = 200
    /\ CartStateOf(Committed, "u2").lines # {}

\* C25: no step of a GET /cart request creates, changes or deletes a cart
\* line or changes the distinct-line count of a cart (a cart row it creates
\* has count 0), and a GET /cart of a user who had a cart when the request
\* arrived changes nothing in users, cart and cart_items.
C25_GetCartDoesNotMutate ==
    [][\A p \in Procs :
          (proc[p].kind = "get" /\ Running(p) /\ proc'[p] # proc[p]) =>
             /\ cart_items' = cart_items
             /\ cart \subseteq cart'
             /\ \A c \in cart' \ cart : c.quantity = 0 /\ c.user_id = proc[p].user_id
             /\ proc[p].had_cart => UNCHANGED <<users, cart, cart_items>>
      ]_vars

\* a GET /cart of a user whose cart holds a line has been answered with it
C25_Witness ==
    /\ last.kind = "get" /\ last.status = 200 /\ last.had_cart
    /\ last.body.lines # {}
    /\ LinesIn(ItemsIn(Committed, last.body.id)) = last.body.lines

\* the prices of all store offers of the products of the answer's lines
OfferPricesOf(body) ==
    {product_store[i].price :
        i \in {j \in 1..Len(product_store) :
                  \E l \in body.lines : l.product_id = product_store[j].product_id}}

\* C26: the cart returned by a successful cart update reports, whenever its
\* lines have at least one store offer, min_price and max_price equal to the
\* smallest and the largest price among all offers of the products of its
\* lines, so min_price <= every such price <= max_price; for an update that
\* ran alone these lines are the cart's lines as stored after the mutation.
C26_MinMaxOverCartOffers ==
    (last.kind = "post" /\ last.status = 200) =>
        /\ OfferPricesOf(last.body) # {} =>
              /\ last.body.min_price.k = "num" /\ last.body.max_price.k = "num"
              /\ last.body.min_price.v \in OfferPricesOf(last.body)
              /\ last.body.max_price.v \in OfferPricesOf(last.body)
              /\ \A x \in OfferPricesOf(last.body) :
                    last.body.min_price.v <= x /\ x <= last.body.max_price.v
        /\ (~last.overlap /\ NoneRunning) =>
              last.body.lines = LinesIn(ItemsIn(Committed, last.body.id))

\* an update has returned a cart with lines for both products: offers at 250,
\* 300 and 500
C26_Witness ==
    /\ last.kind = "post" /\ last.status = 200 /\ last.quantity >= 1
    /\ {l.product_id : l \in last.body.lines} = {1, 2}
    /\ last.body.min_price = Num(250) /\ last.body.max_price = Num(500)

(***************************************************************************)
(* The distance functions: calculateDistance of src/unnamed/part_009 (in   *)
(* JavaScript) and the SQL expression of calculateDistances in             *)
(* src/unnamed/part_001. Angles are whole degrees, multiples of 15 where a *)
(* sine or cosine is taken; sines and cosines are in thousandths, `a` in   *)
(* millionths, angles returned by Atan2 and Asin in hundredths of a        *)
(* degree, distances in kilometres.                                        *)
(***************************************************************************)
\* 1000 * sin(15 * k degrees), k = 0..6
SinTable == <<0, 259, 500, 707, 866, 966, 1000>>

\* Math.sin(deg * Math.PI / 180), SIN(RADIANS(deg))
Sin(deg) ==
    LET d == deg % 360
    IN IF d <= 90 THEN SinTable[d \div 15 + 1]
       ELSE IF d <= 180 THEN SinTable[(180 - d) \div 15 + 1]
       ELSE IF d <= 270 THEN 0 - SinTable[(d - 180) \div 15 + 1]
       ELSE 0 - SinTable[(360 - d) \div 15 + 1]

\* Math.cos(deg * Math.PI / 180), COS(RADIANS(deg))
Cos(deg) == Sin(deg + 90)

\* Math.sqrt, SQRT of a value in millionths: the result in thousandths
Sqrt(n) == CHOOSE r \in 0..1000 : r * r <= n /\ n < (r + 1) * (r + 1)

\* Math.atan2(y, x) for y, x >= 0 not both 0, in hundredths of a degree: the
\* table angle below the direction of (x, y), and between two table angles
\* in proportion to the sines of the two differences
Atan2(y, x) ==
    LET below == {k \in 0..6 : x * Sin(15 * k) <= y * Cos(15 * k)}
        k == CHOOSE i \in below : \A j \in below : j <= i
        up == y * Cos(15 * k) - x * Sin(15 * k)
        down == x * Sin(15 * (k + 1)) - y * Cos(15 * (k + 1))
    IN IF k = 6 THEN 9000 ELSE 1500 * k + (1500 * up) \div (up + down)

\* ASIN(s) for 0 <= s <= 1, in hundredths of a degree
Asin(s) ==
    LET below == {k \in 0..6 : SinTable[k + 1] <= s}
        k == CHOOSE i \in below : \A j \in below : j <= i
    IN IF k = 6 THEN 9000
       ELSE 1500 * k + (1500 * (s - SinTable[k + 1])) \div (SinTable[k + 2] - SinTable[k + 1])

\* an angle in hundredths of a degree as thousandths of a radian
Radians(cdeg) == (cdeg * 31416) \div 180000

\* the haversine term with cos(lat1) squared in place of cos(lat1) * cos(lat2)
MutCalculateDistanceOneLatitude(lat1, lon1, lat2, lon2) ==
    LET sinLat == Sin((lat2 - lat1) \div 2)
        sinLon == Sin((lon2 - lon1) \div 2)
        a == sinLat * sinLat
                + ((Cos(lat1) * Cos(lat1)) \div 1000) * ((sinLon * sinLon) \div 1000)
        c == 2 * Atan2(Sqrt(a), Sqrt(1000000 - a))
    IN (6371 * Radians(c)) \div 1000

\* function calculateDistance(lat1, lon1, lat2, lon2)
CalculateDistance(lat1, lon1, lat2, lon2) ==
    LET sinLat == Sin((lat2 - lat1) \div 2)
        sinLon == Sin((lon2 - lon1) \div 2)
        a == sinLat * sinLat
                + ((Cos(lat1) * Cos(lat2)) \div 1000) * ((sinLon * sinLon) \div 1000)
        c == 2 * Atan2(Sqrt(a), Sqrt(1000000 - a))
    IN (6371 * Radians(c)) \div 1000

\* 6371 * 2 * ASIN(SQRT(POWER(SIN(RADIANS(lat2 - lat1) / 2), 2) + COS(RADIANS(lat1))
\* * COS(RADIANS(lat2)) * POWER(SIN(RADIANS(lon2 - lon1) / 2), 2)))
DistanceSql(lat1, lon1, lat2, lon2) ==
    LET sinLat == Sin((lat2 - lat1) \div 2)
        sinLon == Sin((lon2 - lon1) \div 2)
        a == sinLat * sinLat
                + ((Cos(lat1) * Cos(lat2)) \div 1000) * ((sinLon * sinLon) \div 1000)
    IN (6371 * 2 * Radians(Asin(Sqrt(a)))) \div 1000

\* the coordinates the functions are applied to
Latitudes == {-90, -30, 0, 30, 90}
Longitudes == {-180, -30, 0, 90, 180}

DistanceInit ==
    /\ users = {} /\ cart = {} /\ cart_items = {} /\ product_store = <<>>
    /\ products = ProductRows
    /\ nextCartId = 1 /\ nextItemId = 1
    /\ resp = NoResp
    /\ proc = [p \in Procs |-> Idle]
    /\ tx = [p \in Procs |-> NoTx]
    /\ started = 0
    /\ last = NoAnswer

\* one application of a distance function in each behaviour
DistanceCall(variant, coords, distance) ==
    /\ resp.variant = "none"
    /\ resp' = [variant |-> variant, req |-> coords, status |-> 0, body |-> distance,
                dbAccess |-> 0]
    /\ UNCHANGED <<users, cart, cart_items, product_store, products, nextCartId, nextItemId,
                   proc, tx, started, last>>

\* calculateDistance(user_lat, user_lon, store.latitude, store.longitude)
CallCalculateDistance ==
    \E lat1 \in Latitudes, lon1 \in Longitudes, lat2 \in Latitudes, lon2 \in Longitudes :
        DistanceCall("calculateDistance", <<lat1, lon1, lat2, lon2>>,
                     CalculateDistance(lat1, lon1, lat2, lon2))

\* one row of the query of calculateDistances(user_lat, user_lon, stores)
QueryDistance ==
    \E lat1 \in Latitudes, lon1 \in Longitudes, lat2 \in Latitudes, lon2 \in Longitudes :
        DistanceCall("calculateDistances", <<lat1, lon1, lat2, lon2>>,
                     DistanceSql(lat1, lon1, lat2, lon2))

DistanceNext == CallCalculateDistance \/ QueryDistance

SpecDistance == DistanceInit /\ [][DistanceNext]_vars

\* the function of the call in `resp`, applied to other coordinates
SameFunction(lat1, lon1, lat2, lon2) ==
    IF resp.variant = "calculateDistance"
    THEN CalculateDistance(lat1, lon1, lat2, lon2)
    ELSE DistanceSql(lat1, lon1, lat2, lon2)

\* C27: the distance of two points is the distance of the same points taken
\* in the other order, is zero when the two points are identical, and is
\* never negative.
C27_DistanceSymmetricZeroNonNegative ==
    resp.variant \in {"calculateDistance", "calculateDistances"} =>
        /\ resp.body = SameFunction(resp.req[3], resp.req[4], resp.req[1], resp.req[2])
        /\ (resp.req[1] = resp.req[3] /\ resp.req[2] = resp.req[4]) => resp.body = 0
        /\ resp.body >= 0

\* the distance from (30, -30) to (-30, 90) has been computed and is not zero
C27_Witness ==
    /\ resp.variant = "calculateDistance"
    /\ resp.req = <<30, -30, -30, 90>>
    /\ resp.body > 0

(***************************************************************************)
(* GET /search: app.get('/search') of src/index.js and router.get of       *)
(* src/endpoints/products.js, which are the same code. The image resizing  *)
(* the handler starts without awaiting it writes no table and is left out. *)
(***************************************************************************)
\* String.prototype.toLowerCase on the letters used here
LowerCase(ch) == IF ch = "M" THEN "m" ELSE IF ch = "B" THEN "b" ELSE ch
ToLowerCase(term) == [i \in 1..Len(term) |-> LowerCase(term[i])]

\* product_name: { contains: term }
Contains(name, term) ==
    \E i \in 0..(Len(name) - Len(term)) : SubSeq(name, i + 1, i + Len(term)) = term

\* the request parameters: query as query.split(/\s+/) yields it (<<>> when
\* there is no query), category_id after parseInt, language_id
SearchRequests ==
    [query : {<<>>, << <<"M", "i", "l", "k">> >>, << <<"o", "a", "t">>, <<"B", "r", "e", "a", "d">> >>},
     category_id : {Absent, Num(1), Num(2)},
     language_id : {"en-US", "fr-CA"}]

\* where: { OR: search_conditions, language_id }
SearchWhere(row, req) ==
    /\ \/ \E i \in 1..Len(req.query) : Contains(row.product_name, ToLowerCase(req.query[i]))
       \/ Truthy(req.category_id) /\ row.category_id = req.category_id.v
    /\ row.language_id = req.language_id

\* orderBy: { created_at: 'desc' }; rows of one created_at come in either
\* product_id order (`tie`)
RECURSIVE OrderByCreatedAtDesc(_, _)
OrderByCreatedAtDesc(rows, tie) ==
    IF rows = {} THEN <<>>
    ELSE LET first == CHOOSE r \in rows : \A o \in rows :
                         \/ r.created_at > o.created_at
                         \/ /\ r.created_at = o.created_at
                            /\ IF tie = "asc" THEN r.product_id <= o.product_id
                               ELSE r.product_id >= o.product_id
         IN <<first>> \o OrderByCreatedAtDesc(rows \ {first}, tie)

\* productsWithPrices
ProductsWithPrices(rows) ==
    [i \in 1..Len(rows) |->
        LET prices == {ProductStoreOf(rows[i].product_id)[j].price :
                          j \in 1..Len(ProductStoreOf(rows[i].product_id))}
        IN [product_id |-> rows[i].product_id, product_name |-> rows[i].product_name,
            min_price |-> MinOf(prices), max_price |-> MaxOf(prices)]]

\* the handler
Search(req, tie) ==
    IF req.query = <<>> /\ ~Truthy(req.category_id) THEN Reply(400, <<>>, 0)
    ELSE Reply(200,
               ProductsWithPrices(
                   OrderByCreatedAtDesc({row \in products : SearchWhere(row, req)}, tie)),
               1)

SearchInit ==
    /\ users = {} /\ cart = {} /\ cart_items = {}
    /\ product_store = ScenarioOffers
    /\ \E n \in 0..MaxProducts : \E c \in {0, n \div 2, n} : products = Catalogue(n, c)
    /\ nextCartId = 1 /\ nextItemId = 1
    /\ resp = NoResp
    /\ proc = [p \in Procs |-> Idle]
    /\ tx = [p \in Procs |-> NoTx]
    /\ started = 0
    /\ last = NoAnswer

\* app.get('/search') of src/index.js
GetSearchIndex ==
    \E req \in SearchRequests, tie \in {"asc", "desc"} :
        Answer("search_index", req, Search(req, tie))

\* router.get('/search') of src/endpoints/products.js
GetSearchProducts ==
    \E req \in SearchRequests, tie \in {"asc", "desc"} :
        Answer("search_products", req, Search(req, tie))

SearchNext == GetSearchIndex \/ GetSearchProducts

SpecSearch == SearchInit /\ [][SearchNext]_vars

CreatedAt(product_id) == (CHOOSE row \in products : row.product_id = product_id).created_at

\* C28: a successful GET /search answer holds at most 10 products, in the
\* order of their creation dates (latest first), however many products
\* match the query or the category.
C28_SearchReturnsAtMostTen ==
    (resp.variant \in {"search_index", "search_products"} /\ resp.status = 200) =>
        /\ Len(resp.body) <= 10
        /\ \A i \in 1..Len(resp.body) : \A j \in i..Len(resp.body) :
              CreatedAt(resp.body[i].product_id) >= CreatedAt(resp.body[j].product_id)

\* C29: a cart update answered not-found has changed nothing in users, cart
\* and cart_items: it has created no user row, no cart row and no line.
C29_NotFoundLeavesStateUnchanged ==
    (last.kind = "post" /\ last.status = 404) => ~last.wrote

\* C30: in every store aggregate of a successful shopping-results answer no
\* two line records name the same product, so the aggregate has no more line
\* records than the cart has lines, for every offer table drawn (one of them
\* with two offer rows for the same product and store).
C30_OneLineRecordPerCartProduct ==
    (Answered /\ resp.status = 200) =>
        \A i \in 1..Len(resp.body) :
            /\ \A j \in 1..Len(resp.body[i].products) :
                  \A k \in 1..Len(resp.body[i].products) :
                     resp.body[i].products[j].product_id = resp.body[i].products[k].product_id
                        => j = k
            /\ Len(resp.body[i].products) <= Cardinality(ItemsIn(Committed, resp.req.cart_id.v))

====
